---- MODULE Spec2Model ----
(***************************************************************************)
(* Protocol sniffing core of sing-box (package sniff): PeekStream and      *)
(* PeekPacket race a list of sniffers, one goroutine per sniffer, over the *)
(* bytes peeked from a connection or over one datagram.                    *)
(*                                                                         *)
(* One behaviour of the model is one call of PeekStream or PeekPacket,     *)
(* together with the goroutines the call starts.  Every step below is one  *)
(* statement (or one straight-line group of statements of one goroutine)   *)
(* of the Go source.                                                       *)
(***************************************************************************)
EXTENDS Integers, Sequences, FiniteSets, TLC

(***************************************************************************)
(* Bounds of the model.                                                    *)
(***************************************************************************)
MaxSniffers == 2      \* longest sniffer list passed to a call
MaxReads == 2         \* successful reads a connection delivers at most
MaxSkipCalls == 2     \* calls of Skip with one metadata

\* C.ReadPayloadTimeout, the default used when the timeout argument is zero
\* (300ms in sing-box; the clock of the model counts units of 150ms).
ReadPayloadTimeout == 2

\* time.Time{}: the zero time, "no deadline".
NoDeadline == -1

\* The timeout arguments (0 asks for the default) and the instant at which
\* a call starts.
Timeouts == {0, 1}
StartTimes == {1}

\* What one ReadOnceFrom can append, and the datagrams PeekPacket is given.
Chunks == {<<0>>, <<1>>}
Packets == {<<0>>, <<1>>, <<0, 1>>}

\* The destination ports Skip is asked about (Port is a uint16): the
\* well-known ports and two others.
Ports == (0..1023) \cup {8080, 65535}

\* A sniffer is identified by the byte pattern it recognises.
Patterns == {<<0>>, <<0, 1>>}

RECURSIVE SeqsUpTo(_, _)
SeqsUpTo(S, k) ==
    IF k = 0 THEN {<<>>}
    ELSE LET shorter == SeqsUpTo(S, k - 1)
         IN  shorter \cup {Append(s, x) : s \in {t \in shorter : Len(t) = k - 1}, x \in S}

IsPrefix(p, s) == Len(p) <= Len(s) /\ SubSeq(s, 1, Len(p)) = p

(***************************************************************************)
(* Error values.  An error is a record; Nil is the nil error.  The error a *)
(* sniffer returns is tagged with the sniffer's position in the list and   *)
(* the round it ran in, so that every invocation's reason can be told      *)
(* apart in the collected list.                                            *)
(***************************************************************************)
Nil == [kind |-> "nil", sn |-> 0, round |-> 0, msg |-> "", args |-> <<>>]
SnifferError(d, r) == [kind |-> "sniffer", sn |-> d, round |-> r, msg |-> "", args |-> <<>>]
ReadError(what) == [kind |-> "read", sn |-> 0, round |-> 0, msg |-> what, args |-> <<>>]
DeadlineError == [kind |-> "conn", sn |-> 0, round |-> 0, msg |-> "deadline unsupported", args |-> <<>>]
NotReturned == [kind |-> "running", sn |-> 0, round |-> 0, msg |-> "", args |-> <<>>]

\* E.Cause(err, message): err wrapped with a context message.
Cause(err, message) == [kind |-> "Cause", sn |-> 0, round |-> 0, msg |-> message, args |-> <<err>>]

\* E.Errors(errors...) of sing's exceptions package: nil for no error, the
\* error itself for one, and otherwise the aggregate built from the list
\* (which also drops errors whose message repeats; the messages of the
\* sniffers are not part of the model).
Errors(errs) ==
    IF Len(errs) = 0 THEN Nil
    ELSE IF Len(errs) = 1 THEN errs[1]
    ELSE [kind |-> "Errors", sn |-> 0, round |-> 0, msg |-> "", args |-> errs]

VARIABLES
    mode,          \* "stream": a PeekStream call, "packet": a PeekPacket call
    sniffers,      \* the sniffers argument, in registration order
    timeout,       \* the timeout argument of PeekStream
    connOK,        \* whether conn supports SetReadDeadline
    packet,        \* the packet argument of PeekPacket
    faulty,        \* the sniffers that may panic when they are called
    port,          \* metadata.Destination.Port of a Skip call
    skipLog,       \* history: the results of the Skip calls so far
    now,           \* the clock
    startNow,      \* history: the clock when the call computed its deadline
    pc,            \* position of the calling goroutine
    i,             \* the round counter of PeekStream
    deadline,      \* local variable deadline
    connDeadline,  \* read deadline currently set on conn
    readErr,       \* err of the last ReadOnceFrom
    buffer,        \* content of the peek buffer
    delivered,     \* history: the bytes the connection handed to the reads
    errors,        \* local slice errors
    errorsChan,    \* content of the channel errorsChan
    closed,        \* whether errorsChan is closed
    wg,            \* counter of the sync.WaitGroup
    snPc,          \* position of each sniffer goroutine of the current race
    closerPc,      \* position of the goroutine that closes errorsChan
    cancelCalls,   \* number of calls of cancel() of the current race
    protocol,      \* metadata.Protocol, a string header: data pointer and length
    protoWrites,   \* history: completed assignments to metadata.Protocol
    reads,         \* history: calls of ReadOnceFrom
    launches,      \* history: sniffer goroutines started
    ret            \* the error the call returned

vars == <<mode, sniffers, timeout, connOK, packet, faulty, port, skipLog,
          delivered, now, startNow, pc, i, deadline,
          connDeadline, readErr, buffer, errors, errorsChan, closed, wg,
          snPc, closerPc, cancelCalls, protocol, protoWrites, reads,
          launches, ret>>

callerVars == <<pc, i, deadline, startNow, connDeadline, readErr, buffer, delivered, errors, reads, ret>>
raceVars == <<errorsChan, closed, wg, snPc, closerPc, cancelCalls, launches>>
argVars == <<mode, sniffers, timeout, connOK, packet, faulty, port, skipLog>>

N == Len(sniffers)

\* The bytes a sniffer of the current race is handed: bytes.NewReader(
\* buffer.Bytes()) in PeekStream, the packet in PeekPacket.
View == IF mode = "stream" THEN buffer ELSE packet

\* Cap as it would be with room for all results but one:
\* make(chan error, len(sniffers)-1).
Cap_OneShort == N - 1

\* Capacity of errorsChan: make(chan error, len(sniffers)).
Cap == N

\* Whether the sniffer with pattern p recognises the bytes v.
Matches(p, v) == IsPrefix(p, v)

Unset == [ptr |-> 0, len |-> 0]

\* Skip as it would be without the case of port 587.
Skip_NoSubmission(p) ==
    CASE p \in {25, 465} -> TRUE
      [] p \in {143, 993} -> TRUE
      [] p \in {110, 995} -> TRUE
      [] OTHER -> FALSE

\* Skip, lines 22-36: the switch on metadata.Destination.Port.
Skip(p) ==
    CASE p \in {25, 465, 587} -> TRUE
      [] p \in {143, 993} -> TRUE
      [] p \in {110, 995} -> TRUE
      [] OTHER -> FALSE

\* The state in which a call starts: nothing armed, no goroutine, the
\* metadata without a protocol.
Idle ==
    /\ startNow = 0
    /\ pc = "start"
    /\ i = 0
    /\ deadline = NoDeadline
    /\ connDeadline = NoDeadline
    /\ readErr = Nil
    /\ buffer = <<>>
    /\ delivered = <<>>
    /\ errors = <<>>
    /\ errorsChan = <<>>
    /\ closed = FALSE
    /\ wg = 0
    /\ snPc = [d \in 1..N |-> "none"]
    /\ closerPc = "none"
    /\ cancelCalls = 0
    /\ protocol = Unset
    /\ protoWrites = 0
    /\ reads = 0
    /\ launches = 0
    /\ ret = NotReturned

\* The arguments of a call of PeekStream or PeekPacket.
Arguments ==
    /\ mode \in {"stream", "packet"}
    /\ sniffers \in SeqsUpTo(Patterns, MaxSniffers)
    /\ timeout \in IF mode = "stream" THEN Timeouts ELSE {0}
    /\ connOK \in IF mode = "stream" THEN BOOLEAN ELSE {TRUE}
    /\ packet \in IF mode = "packet" THEN Packets ELSE {<<>>}
    /\ port = 0
    /\ skipLog = <<>>
    /\ now \in IF mode = "stream" THEN StartTimes ELSE {0}

Init ==
    /\ Arguments
    /\ faulty = {}
    /\ Idle

\* A call in which at least one sniffer may panic when it is called.
InitFault ==
    /\ Arguments
    /\ faulty \in (SUBSET (1..N)) \ {{}}
    /\ Idle

\* A series of calls of Skip with one metadata.
InitSkip ==
    /\ mode = "skip"
    /\ port \in Ports
    /\ skipLog = <<>>
    /\ sniffers = <<>>
    /\ timeout = 0
    /\ connOK = TRUE
    /\ packet = <<>>
    /\ faulty = {}
    /\ now = 0
    /\ Idle

\* Time passes.  After time.Now() (line 42) the call observes the clock
\* only in the read that the deadline bounds (line 52), so the time that
\* passes anywhere else is counted when the call reaches the read; the read
\* blocks until the armed deadline at the latest.
Tick ==
    /\ mode = "stream"
    /\ pc = "read"
    /\ now < connDeadline
    /\ now' = now + 1
    /\ UNCHANGED <<argVars, callerVars, raceVars, protocol, protoWrites>>

\* PeekStream, lines 39-43: the deadline is computed from the clock.
StreamStart ==
    /\ mode = "stream"
    /\ pc = "start"
    /\ deadline' = now + (IF timeout = 0 THEN ReadPayloadTimeout ELSE timeout)
    /\ startNow' = now
    /\ errors' = <<>>
    /\ i' = 0
    /\ pc' = "setDeadline"
    /\ UNCHANGED <<argVars, now, connDeadline, readErr, buffer, delivered, reads, ret,
                   raceVars, protocol, protoWrites>>

\* The call returns e.
Return(e) ==
    /\ pc' = "returned"
    /\ ret' = e

\* SetReadDeadline as it would be with a fresh relative timeout per round:
\* conn.SetReadDeadline(time.Now().Add(timeout)).
SetReadDeadline_Relative ==
    /\ pc = "setDeadline"
    /\ IF connOK
       THEN /\ connDeadline' = now + (IF timeout = 0 THEN ReadPayloadTimeout ELSE timeout)
            /\ pc' = "read"
            /\ ret' = ret
       ELSE /\ Return(Cause(DeadlineError, "set read deadline"))
            /\ connDeadline' = connDeadline
    /\ UNCHANGED <<argVars, now, i, deadline, startNow, readErr, buffer, delivered, errors, reads,
                   raceVars, protocol, protoWrites>>

\* SetReadDeadline as it would be if the round armed no deadline:
\* conn.SetReadDeadline(time.Time{}).
SetReadDeadline_NoDeadline ==
    /\ pc = "setDeadline"
    /\ IF connOK
       THEN /\ connDeadline' = NoDeadline
            /\ pc' = "read"
            /\ ret' = ret
       ELSE /\ Return(Cause(DeadlineError, "set read deadline"))
            /\ connDeadline' = connDeadline
    /\ UNCHANGED <<argVars, now, i, deadline, startNow, readErr, buffer, delivered, errors, reads,
                   raceVars, protocol, protoWrites>>

\* PeekStream, lines 46-49: arm the read deadline of the round.  A
\* connection without deadline support fails every SetReadDeadline.
SetReadDeadline ==
    /\ pc = "setDeadline"
    /\ IF connOK
       THEN /\ connDeadline' = deadline
            /\ pc' = "read"
            /\ ret' = ret
       ELSE /\ Return(Cause(DeadlineError, "set read deadline"))
            /\ connDeadline' = connDeadline
    /\ UNCHANGED <<argVars, now, i, deadline, startNow, readErr, buffer, delivered, errors, reads,
                   raceVars, protocol, protoWrites>>

\* ReadOnceFrom as it would be if every round read into the start of the
\* buffer, over what the earlier rounds had read.
ReadOnceFrom_Overwrite ==
    /\ pc = "read"
    /\ reads' = reads + 1
    /\ pc' = "resetDeadline"
    /\ \/ /\ connDeadline = NoDeadline \/ now < connDeadline
          /\ i < MaxReads
          /\ \E c \in Chunks : /\ buffer' = c
                               /\ delivered' = delivered \o c
          /\ readErr' = Nil
       \/ /\ connDeadline /= NoDeadline /\ now >= connDeadline
          /\ readErr' = ReadError("timeout")
          /\ UNCHANGED <<buffer, delivered>>
       \/ /\ readErr' = ReadError("EOF")
          /\ UNCHANGED <<buffer, delivered>>
    /\ UNCHANGED <<argVars, now, i, deadline, startNow, connDeadline, errors, ret,
                   raceVars, protocol, protoWrites>>

\* PeekStream, line 52: one read from the connection, appended to the
\* buffer.  The read fails once the armed deadline has passed; before that
\* it delivers a chunk or fails for a reason of the connection (EOF).
ReadOnceFrom ==
    /\ pc = "read"
    /\ reads' = reads + 1
    /\ pc' = "resetDeadline"
    /\ \/ /\ connDeadline = NoDeadline \/ now < connDeadline
          /\ i < MaxReads
          /\ \E c \in Chunks : /\ buffer' = buffer \o c
                               /\ delivered' = delivered \o c
          /\ readErr' = Nil
       \/ /\ connDeadline /= NoDeadline /\ now >= connDeadline
          /\ readErr' = ReadError("timeout")
          /\ UNCHANGED <<buffer, delivered>>
       \/ /\ readErr' = ReadError("EOF")
          /\ UNCHANGED <<buffer, delivered>>
    /\ UNCHANGED <<argVars, now, i, deadline, startNow, connDeadline, errors, ret,
                   raceVars, protocol, protoWrites>>

\* ResetDeadline as it would be if the reset followed the error check and
\* so ran after a successful read only.
ResetDeadline_OnSuccessOnly ==
    /\ pc = "resetDeadline"
    /\ connDeadline' = IF readErr = Nil THEN NoDeadline ELSE connDeadline
    /\ pc' = "checkErr"
    /\ UNCHANGED <<argVars, now, i, deadline, startNow, readErr, buffer, delivered, errors, reads, ret,
                   raceVars, protocol, protoWrites>>

\* PeekStream, line 53: the deadline is reset, whatever the read returned.
ResetDeadline ==
    /\ pc = "resetDeadline"
    /\ connDeadline' = NoDeadline
    /\ pc' = "checkErr"
    /\ UNCHANGED <<argVars, now, i, deadline, startNow, readErr, buffer, delivered, errors, reads, ret,
                   raceVars, protocol, protoWrites>>

\* CheckReadErr as it would be with the test i > 0 dropped: every failed
\* read breaks out of the loop.
CheckReadErr_AlwaysBreak ==
    /\ pc = "checkErr"
    /\ IF readErr /= Nil
       THEN Return(Errors(errors))
       ELSE /\ pc' = "makeRace"
            /\ ret' = ret
    /\ UNCHANGED <<argVars, now, i, deadline, startNow, connDeadline, readErr, buffer, delivered,
                   errors, reads, raceVars, protocol, protoWrites>>

\* CheckReadErr as it would be without the break: every failed read is
\* returned wrapped.
CheckReadErr_AlwaysFatal ==
    /\ pc = "checkErr"
    /\ IF readErr /= Nil
       THEN Return(Cause(readErr, "read payload"))
       ELSE /\ pc' = "makeRace"
            /\ ret' = ret
    /\ UNCHANGED <<argVars, now, i, deadline, startNow, connDeadline, readErr, buffer, delivered,
                   errors, reads, raceVars, protocol, protoWrites>>

\* PeekStream, lines 55-60 and 93: a failed read ends the call, with the
\* wrapped read error in the first round and with the aggregate of the
\* collected errors (break, then line 93) in a later round.
CheckReadErr ==
    /\ pc = "checkErr"
    /\ IF readErr /= Nil
       THEN IF i > 0
            THEN Return(Errors(errors))
            ELSE Return(Cause(readErr, "read payload"))
       ELSE /\ pc' = "makeRace"
            /\ ret' = ret
    /\ UNCHANGED <<argVars, now, i, deadline, startNow, connDeadline, readErr, buffer, delivered,
                   errors, reads, raceVars, protocol, protoWrites>>

\* A fresh WaitGroup, channel and cancellable context.
NewRace ==
    /\ errorsChan' = <<>>
    /\ closed' = FALSE
    /\ wg' = 0
    /\ cancelCalls' = 0
    /\ snPc' = [d \in 1..N |-> "none"]
    /\ closerPc' = "none"

\* MakeRace as it would be with the errors slice declared inside the loop,
\* afresh for every round.
MakeRace_FreshErrors ==
    /\ pc = "makeRace"
    /\ NewRace
    /\ errors' = <<>>
    /\ pc' = "launch"
    /\ UNCHANGED <<argVars, now, i, deadline, startNow, connDeadline, readErr, buffer, delivered,
                   reads, ret, launches, protocol, protoWrites>>

\* PeekStream, lines 63-65.
MakeRace ==
    /\ pc = "makeRace"
    /\ NewRace
    /\ pc' = "launch"
    /\ UNCHANGED <<argVars, now, i, deadline, startNow, connDeadline, readErr, buffer, delivered,
                   errors, reads, ret, launches, protocol, protoWrites>>

\* PeekPacket, lines 97-105.
PacketStart ==
    /\ mode = "packet"
    /\ pc = "start"
    /\ NewRace
    /\ errors' = <<>>
    /\ pc' = "launch"
    /\ UNCHANGED <<argVars, now, i, deadline, startNow, connDeadline, readErr, buffer, delivered,
                   reads, ret, launches, protocol, protoWrites>>

\* Launch as it would be if the closing goroutine were started only when
\* there is a sniffer to wait for.
Launch_SkipEmpty ==
    /\ pc = "launch"
    /\ wg' = N
    /\ snPc' = [d \in 1..N |-> "spawned"]
    /\ launches' = launches + N
    /\ closerPc' = IF N = 0 THEN "none" ELSE "wait"
    /\ pc' = "collect"
    /\ UNCHANGED <<argVars, now, i, deadline, startNow, connDeadline, readErr, buffer, delivered,
                   errors, reads, ret, errorsChan, closed, cancelCalls, protocol,
                   protoWrites>>

\* Lines 67-79 (107-119): the launch loop, wg.Add(1) and a go statement per
\* sniffer, then the go statement of the goroutine that waits for the
\* sniffers and closes the channel; the caller goes on to range over the
\* channel.  The loop touches nothing a started goroutine reads, so it is
\* taken as one step.
Launch ==
    /\ pc = "launch"
    /\ wg' = N
    /\ snPc' = [d \in 1..N |-> "spawned"]
    /\ launches' = launches + N
    /\ closerPc' = "wait"
    /\ pc' = "collect"
    /\ UNCHANGED <<argVars, now, i, deadline, startNow, connDeadline, readErr, buffer, delivered,
                   errors, reads, ret, errorsChan, closed, cancelCalls, protocol,
                   protoWrites>>

\* Line 71 (111), the call sn(fastClose, metadata, ...): the sniffer
\* inspects its view.  The sniffer is handed the metadata pointer and its
\* only result is an error (lines 18-19), and the caller never assigns
\* metadata.Protocol: a sniffer reports its protocol by assigning it, with
\* no synchronisation between the goroutines.  The assignment of a string
\* is two stores, the data pointer here and the length in SnifferMatched.
\* A sniffer that does not recognise the bytes returns its error, which
\* the goroutine sends (the send blocks while the channel is full); what
\* lies between is local to the goroutine.  The context fastClose is
\* advisory; the sniffers here run to completion.
SnifferCall(d) ==
    /\ snPc[d] = "spawned"
    /\ IF Matches(sniffers[d], View)
       THEN /\ protocol' = [protocol EXCEPT !.ptr = d]
            /\ snPc' = [snPc EXCEPT ![d] = "writing"]
            /\ errorsChan' = errorsChan
       ELSE /\ Len(errorsChan) < Cap
            /\ errorsChan' = Append(errorsChan, SnifferError(d, i))
            /\ snPc' = [snPc EXCEPT ![d] = "sent"]
            /\ protocol' = protocol
    /\ UNCHANGED <<argVars, now, callerVars, closed, wg, closerPc, cancelCalls,
                   launches, protoWrites>>

\* Line 71 (111), the call sn(...) of a sniffer of the set faulty, which
\* panics on some of its inputs.  No goroutine of lines 69-72 and 109-112
\* recovers, so the panic ends the program: the caller and every other
\* goroutine stop where they are.
SnifferPanic(d) ==
    /\ snPc[d] = "spawned"
    /\ d \in faulty
    /\ pc' = "crashed"
    /\ snPc' = [e \in 1..N |-> IF e = d THEN "panicked" ELSE "killed"]
    /\ closerPc' = "killed"
    /\ UNCHANGED <<argVars, now, i, deadline, startNow, connDeadline, readErr, buffer, delivered,
                   errors, reads, ret, errorsChan, closed, wg, cancelCalls, launches,
                   protocol, protoWrites>>

\* Line 71 (111), the matching sniffer completes its assignment and
\* returns nil.
SnifferMatched(d) ==
    /\ snPc[d] = "writing"
    /\ protocol' = [protocol EXCEPT !.len = d]
    /\ protoWrites' = protoWrites + 1
    /\ snPc' = [snPc EXCEPT ![d] = "matched"]
    /\ UNCHANGED <<argVars, now, callerVars, errorsChan, closed, wg, closerPc,
                   cancelCalls, launches>>

\* Line 71 (111), errorsChan <- nil: the send blocks while the channel is
\* full.
SnifferSend(d) ==
    /\ snPc[d] = "matched"
    /\ Len(errorsChan) < Cap
    /\ errorsChan' = Append(errorsChan, Nil)
    /\ snPc' = [snPc EXCEPT ![d] = "sent"]
    /\ UNCHANGED <<argVars, now, callerVars, closed, wg, closerPc, cancelCalls,
                   launches, protocol, protoWrites>>

\* Line 70 (110), the deferred wg.Done().
SnifferDone(d) ==
    /\ snPc[d] = "sent"
    /\ wg' = wg - 1
    /\ snPc' = [snPc EXCEPT ![d] = "done"]
    /\ UNCHANGED <<argVars, now, callerVars, errorsChan, closed, closerPc,
                   cancelCalls, launches, protocol, protoWrites>>

\* Closer as it would be without the wg.Wait(): the channel is closed
\* while sniffers are still running.
Closer_NoWait ==
    /\ closerPc = "wait"
    /\ closed' = TRUE
    /\ closerPc' = "done"
    /\ UNCHANGED <<argVars, now, callerVars, errorsChan, wg, snPc, cancelCalls,
                   launches, protocol, protoWrites>>

\* Lines 77-78 (117-118): wg.Wait() returns when the counter is zero, then
\* close(errorsChan).
Closer ==
    /\ closerPc = "wait"
    /\ wg = 0
    /\ closed' = TRUE
    /\ closerPc' = "done"
    /\ UNCHANGED <<argVars, now, callerVars, errorsChan, wg, snPc, cancelCalls,
                   launches, protocol, protoWrites>>

\* Receive as it would be with errors = []error{err} in place of the append.
Receive_KeepLast ==
    /\ pc = "collect"
    /\ errorsChan /= <<>>
    /\ errorsChan' = Tail(errorsChan)
    /\ IF Head(errorsChan) = Nil
       THEN /\ cancelCalls' = cancelCalls + (IF mode = "packet" THEN 2 ELSE 1)
            /\ Return(Nil)
            /\ errors' = errors
       ELSE /\ errors' = <<Head(errorsChan)>>
            /\ UNCHANGED <<cancelCalls, pc, ret>>
    /\ UNCHANGED <<argVars, now, i, deadline, startNow, connDeadline, readErr, buffer, delivered,
                   reads, closed, wg, snPc, closerPc, launches,
                   protocol, protoWrites>>

\* Lines 82-88 (122-128): one iteration of the range loop.  A nil ends the
\* call at once, after cancel() (and, in PeekPacket, the deferred cancel());
\* an error is appended to errors.
Receive ==
    /\ pc = "collect"
    /\ errorsChan /= <<>>
    /\ errorsChan' = Tail(errorsChan)
    /\ IF Head(errorsChan) = Nil
       THEN /\ cancelCalls' = cancelCalls + (IF mode = "packet" THEN 2 ELSE 1)
            /\ Return(Nil)
            /\ errors' = errors
       ELSE /\ errors' = Append(errors, Head(errorsChan))
            /\ UNCHANGED <<cancelCalls, pc, ret>>
    /\ UNCHANGED <<argVars, now, i, deadline, startNow, connDeadline, readErr, buffer, delivered,
                   reads, closed, wg, snPc, closerPc, launches,
                   protocol, protoWrites>>

\* RangeEnd as it would be if the range loop ended as soon as the channel
\* is empty, closed or not.
RangeEnd_OnEmpty ==
    /\ pc = "collect"
    /\ errorsChan = <<>>
    /\ cancelCalls' = cancelCalls + 1
    /\ IF mode = "stream"
       THEN /\ i' = i + 1
            /\ pc' = "setDeadline"
            /\ ret' = ret
       ELSE /\ Return(Errors(errors))
            /\ i' = i
    /\ UNCHANGED <<argVars, now, deadline, startNow, connDeadline, readErr, buffer, delivered,
                   errors, reads, errorsChan, closed, wg, snPc, closerPc,
                   launches, protocol, protoWrites>>

\* RangeEnd as it would be without the cancel() of line 90 and without the
\* deferred cancel() of line 105.
RangeEnd_NoCancel ==
    /\ pc = "collect"
    /\ errorsChan = <<>>
    /\ closed
    /\ cancelCalls' = cancelCalls
    /\ IF mode = "stream"
       THEN /\ i' = i + 1
            /\ pc' = "setDeadline"
            /\ ret' = ret
       ELSE /\ Return(Errors(errors))
            /\ i' = i
    /\ UNCHANGED <<argVars, now, deadline, startNow, connDeadline, readErr, buffer, delivered,
                   errors, reads, errorsChan, closed, wg, snPc, closerPc,
                   launches, protocol, protoWrites>>

\* The range loop ends when the channel is closed and empty.  PeekStream,
\* lines 90-91 and 45: cancel() and the next round.  PeekPacket, line 130:
\* the aggregate is returned and the deferred cancel() runs.
RangeEnd ==
    /\ pc = "collect"
    /\ errorsChan = <<>>
    /\ closed
    /\ cancelCalls' = cancelCalls + 1
    /\ IF mode = "stream"
       THEN /\ i' = i + 1
            /\ pc' = "setDeadline"
            /\ ret' = ret
       ELSE /\ Return(Errors(errors))
            /\ i' = i
    /\ UNCHANGED <<argVars, now, deadline, startNow, connDeadline, readErr, buffer, delivered,
                   errors, reads, errorsChan, closed, wg, snPc, closerPc,
                   launches, protocol, protoWrites>>

Next ==
    \/ Tick
    \/ StreamStart
    \/ SetReadDeadline
    \/ ReadOnceFrom
    \/ ResetDeadline
    \/ CheckReadErr
    \/ MakeRace
    \/ PacketStart
    \/ Launch
    \/ \E d \in 1..N : SnifferCall(d)
    \/ \E d \in 1..N : SnifferMatched(d)
    \/ \E d \in 1..N : SnifferSend(d)
    \/ \E d \in 1..N : SnifferDone(d)
    \/ Closer
    \/ Receive
    \/ RangeEnd

Spec == Init /\ [][Next]_vars

\* Calls in which a sniffer panics.
NextFault ==
    \/ Next
    \/ \E d \in 1..N : SnifferPanic(d)

SpecFault == InitFault /\ [][NextFault]_vars

\* One call of Skip, lines 22-36: it reads the port and returns; the result
\* is recorded.
SkipCall ==
    /\ mode = "skip"
    /\ Len(skipLog) < MaxSkipCalls
    /\ skipLog' = Append(skipLog, Skip(port))
    /\ UNCHANGED <<mode, sniffers, timeout, connOK, packet, faulty, port, now,
                   callerVars, raceVars, protocol, protoWrites>>

SpecSkip == InitSkip /\ [][SkipCall]_vars

(***************************************************************************)
(* Scheduling.  The Go scheduler runs every runnable goroutine, the clock  *)
(* advances, and a read blocked on a connection whose read deadline has    *)
(* passed returns (line 52): these are the steps that cannot be postponed  *)
(* for ever.  Nothing is assumed of the peer: it need never send nor       *)
(* close, so a read that delivers bytes or fails with EOF is not among     *)
(* them.                                                                   *)
(***************************************************************************)
\* Line 52: the read returns because the armed deadline has passed.
ReadTimeout ==
    /\ ReadOnceFrom
    /\ readErr' = ReadError("timeout")

\* The steps of the calling goroutine other than the blocking read.
CallerStep ==
    \/ StreamStart
    \/ SetReadDeadline
    \/ ResetDeadline
    \/ CheckReadErr
    \/ MakeRace
    \/ PacketStart
    \/ Launch
    \/ Receive
    \/ RangeEnd

\* The steps of the goroutine of sniffer d.
SnifferStep(d) ==
    \/ SnifferCall(d)
    \/ SnifferMatched(d)
    \/ SnifferSend(d)
    \/ SnifferDone(d)

\* A step that is taken sooner or later once it is possible.
Forced ==
    \/ Tick
    \/ ReadTimeout
    \/ CallerStep
    \/ Closer
    \/ \E d \in 1..N : SnifferStep(d)

TypeOK ==
    /\ pc \in {"start", "setDeadline", "read", "resetDeadline", "checkErr", "makeRace",
               "launch", "collect", "returned", "crashed"}
    /\ wg \in 0..N
    /\ Len(errorsChan) <= N
    /\ i \in 0..MaxReads

(***************************************************************************)
(* Vocabulary of the properties.                                           *)
(***************************************************************************)
\* The sniffers that recognise the bytes of the current race.
MatchSet == {d \in 1..N : Matches(sniffers[d], View)}

Min(S) == CHOOSE x \in S : \A y \in S : x <= y

Max(S) == CHOOSE x \in S : \A y \in S : x >= y

Range(s) == {s[k] : k \in 1..Len(s)}

\* The errors collected from the sniffers of round r, in arrival order.
RoundErrors(r) == SelectSeq(errors, LAMBDA e : e.round = r)

\* errs holds exactly one error of every sniffer for round r.
OnePerSniffer(errs, r) ==
    /\ Len(errs) = N
    /\ \A d \in 1..N : SnifferError(d, r) \in Range(errs)

\* The call returned out of a race: by a match or, in PeekPacket, by the
\* end of the range loop.
ReturnedFromRace ==
    /\ pc = "returned"
    /\ connOK
    /\ readErr = Nil

\* No goroutine of a race is running.
NoGoroutine ==
    /\ \A d \in 1..N : snPc[d] \in {"none", "done"}
    /\ closerPc \in {"none", "done"}

EffectiveTimeout == IF timeout = 0 THEN ReadPayloadTimeout ELSE timeout

(***************************************************************************)
(* C1.  In a race in which exactly one sniffer matches and every other one *)
(* returns an error, the range loop never ends by the closed channel (the  *)
(* aggregated failure is never taken) and the call returns nil, in every   *)
(* arrival order of the results.                                           *)
(***************************************************************************)
C1_OneMatchSucceeds ==
    Cardinality(MatchSet) = 1 =>
        /\ pc = "collect" => ~(errorsChan = <<>> /\ closed)
        /\ ReturnedFromRace => ret = Nil

\* The match was received after the error of another sniffer.
C1_Witness ==
    /\ ReturnedFromRace
    /\ Cardinality(MatchSet) = 1
    /\ N >= 2
    /\ ret = Nil
    /\ Len(RoundErrors(i)) >= 1

(***************************************************************************)
(* C2.  When PeekStream returns nil in round k (rounds 1..k-1 were          *)
(* inconclusive), it has read exactly k times and metadata.Protocol has    *)
(* been assigned exactly once.                                             *)
(***************************************************************************)
C2_ExactlyKReadsOneSet ==
    (mode = "stream" /\ pc = "returned" /\ connOK /\ readErr = Nil) =>
        /\ ret = Nil
        /\ reads = i + 1
        /\ protoWrites = 1

(***************************************************************************)
(* C3.  A failed first read of PeekStream returns that error wrapped with  *)
(* "read payload"; no sniffer was launched, there was no second read and   *)
(* metadata.Protocol is unset.                                             *)
(***************************************************************************)
C3_FirstReadFatal ==
    (mode = "stream" /\ readErr /= Nil /\ i = 0) =>
        /\ pc \in {"resetDeadline", "checkErr", "returned"}
        /\ reads = 1
        /\ launches = 0
        /\ protocol = Unset
        /\ pc = "returned" => ret = Cause(readErr, "read payload")

C3_Witness ==
    /\ mode = "stream"
    /\ pc = "returned"
    /\ i = 0
    /\ N >= 1
    /\ readErr = ReadError("EOF")
    /\ ret = Cause(ReadError("EOF"), "read payload")

(***************************************************************************)
(* C4.  A failed read in a round after the first is not returned: the call *)
(* returns the aggregate of the errors of all i earlier rounds, and that   *)
(* read is the last one, with no sniffer launched after it.                *)
(***************************************************************************)
C4_LaterReadErrorExhausts ==
    (mode = "stream" /\ readErr /= Nil /\ i > 0) =>
        /\ pc \in {"resetDeadline", "checkErr", "returned"}
        /\ reads = i + 1
        /\ launches = i * N
        /\ pc = "returned" =>
              /\ ret = Errors(errors)
              /\ Len(errors) = i * N
              /\ \A r \in 0..(i - 1) : OnePerSniffer(RoundErrors(r), r)

C4_Witness ==
    /\ mode = "stream"
    /\ pc = "returned"
    /\ i = 2
    /\ N = 2
    /\ readErr = ReadError("timeout")
    /\ ret = Errors(errors)

(***************************************************************************)
(* C5.  A race in which no sniffer matches ends by the closed channel and  *)
(* has then collected exactly one error per sniffer, none lost and none    *)
(* duplicated, in whatever order they arrived; PeekPacket then returns     *)
(* E.Errors of exactly these.                                              *)
(***************************************************************************)
C5_AllReasonsCollected ==
    /\ (MatchSet = {} /\ ReturnedFromRace) =>
          /\ mode = "packet"
          /\ ret = Errors(errors)
          /\ OnePerSniffer(errors, 0)
    /\ (MatchSet = {} /\ pc = "collect" /\ closed /\ errorsChan = <<>>) =>
          OnePerSniffer(RoundErrors(i), i)
    /\ mode = "stream" => \A r \in 0..(i - 1) : OnePerSniffer(RoundErrors(r), r)

\* The errors arrived against the registration order.
C5_Witness ==
    /\ mode = "packet"
    /\ pc = "returned"
    /\ N = 2
    /\ errors = <<SnifferError(2, 0), SnifferError(1, 0)>>

(***************************************************************************)
(* C6.  When two or more sniffers match in the race that returns nil,      *)
(* metadata.Protocol is the protocol of the first registered one of them   *)
(* when the call returns and from then on.                                 *)
(***************************************************************************)
C6_FirstRegisteredWins ==
    (pc = "returned" /\ connOK /\ readErr = Nil /\ Cardinality(MatchSet) >= 2) =>
        protocol = [ptr |-> Min(MatchSet), len |-> Min(MatchSet)]

(***************************************************************************)
(* C7.  When the call has returned, every sniffer goroutine it launched    *)
(* has finished.                                                           *)
(***************************************************************************)
C7_NoSnifferOutlivesCall ==
    pc = "returned" => \A d \in 1..N : snPc[d] \in {"none", "done"}

(***************************************************************************)
(* C8.  With no sniffer, nothing is ever sent or collected, the caller at  *)
(* the range loop waits for nothing but the closing goroutine, which is    *)
(* never blocked, and the call never returns out of a match: its race ends *)
(* by the closed channel (one cancel(), at the end of the range loop) and  *)
(* the value returned is E.Errors of an empty errors list.                 *)
(***************************************************************************)
C8_EmptyRegistry ==
    N = 0 =>
        /\ errorsChan = <<>>
        /\ errors = <<>>
        /\ wg = 0
        /\ launches = 0
        /\ protoWrites = 0
        /\ cancelCalls <= 1
        /\ pc = "collect" => (closed \/ closerPc = "wait")
        /\ (pc = "returned" /\ mode = "packet") =>
              (closed /\ cancelCalls = 1 /\ ret = Errors(<<>>))
        /\ (pc = "returned" /\ mode = "stream" /\ i > 0) =>
              (closed /\ readErr /= Nil /\ ret = Errors(<<>>))

C8_Witness ==
    /\ N = 0
    /\ pc = "returned"
    /\ mode = "packet"
    /\ closed
    /\ ret = Errors(<<>>)

(***************************************************************************)
(* C9.  The read deadline is armed only around the read of a round: it is  *)
(* cleared before the result of the read is looked at, so no goroutine of  *)
(* a race runs while it is armed and the connection has no read deadline   *)
(* when the call has returned.                                             *)
(***************************************************************************)
C9_DeadlineClearedAfterRead ==
    connDeadline /= NoDeadline =>
        /\ pc \in {"read", "resetDeadline"}
        /\ NoGoroutine

\* Returned after a failed read of a later round, with the deadline cleared.
C9_Witness ==
    /\ pc = "returned"
    /\ i >= 1
    /\ readErr /= Nil
    /\ connDeadline = NoDeadline

(***************************************************************************)
(* C10.  The deadline is the instant the call started plus the timeout     *)
(* (the default when the argument is zero); it never changes and every     *)
(* round arms the connection with exactly it.                              *)
(***************************************************************************)
C10_SharedAbsoluteDeadline ==
    (mode = "stream" /\ pc /= "start") =>
        /\ deadline = startNow + EffectiveTimeout
        /\ connDeadline \in {NoDeadline, deadline}

\* A later round is armed after the clock has advanced.
C10_Witness ==
    /\ connDeadline /= NoDeadline
    /\ i >= 1
    /\ startNow > 0
    /\ now > startNow

(***************************************************************************)
(* C11.  As stated: PeekStream over a connection that never yields         *)
(* matching bytes and whose reads fail once the deadline has passed        *)
(* returns the Exhausted result, that is the aggregate of the errors       *)
(* collected in at least one inconclusive round.                           *)
(***************************************************************************)
C11_TimeoutExhausts ==
    (mode = "stream" /\ pc = "returned" /\ readErr = ReadError("timeout")) =>
        /\ i >= 1
        /\ ret = Errors(errors)

(***************************************************************************)
(* Statements a goroutine has still to execute, for the termination        *)
(* argument: every step of the model lowers Variant, a natural number.     *)
(***************************************************************************)
\* Statements left to the caller in its round.
PcRank ==
    CASE pc = "start" -> 8
      [] pc = "setDeadline" -> 7
      [] pc = "read" -> 6
      [] pc = "resetDeadline" -> 5
      [] pc = "checkErr" -> 4
      [] pc = "makeRace" -> 3
      [] pc = "launch" -> 2
      [] pc = "collect" -> 1
      [] pc = "returned" -> 0

\* Statements left to the goroutine of sniffer d, counted twice: its send
\* also adds an element to the channel.
SnRank(d) ==
    CASE snPc[d] = "spawned" -> 8
      [] snPc[d] = "writing" -> 6
      [] snPc[d] = "matched" -> 4
      [] snPc[d] = "sent" -> 2
      [] OTHER -> 0

RECURSIVE SumSnRank(_)
SumSnRank(d) == IF d = 0 THEN 0 ELSE SnRank(d) + SumSnRank(d - 1)

\* Time left until the armed read deadline.
TimeLeft ==
    IF connDeadline /= NoDeadline /\ now < connDeadline THEN connDeadline - now ELSE 0

\* More than the goroutines of one race and the clock can add to Variant.
RoundWeight == 8 * MaxSniffers + ReadPayloadTimeout + Max(Timeouts) + 2

Variant ==
    RoundWeight * (8 * (MaxReads + 1 - i) + PcRank)
        + SumSnRank(N)
        + (IF closerPc = "wait" THEN 1 ELSE 0)
        + Len(errorsChan)
        + TimeLeft

(***************************************************************************)
(* C11, amended.  PeekStream (and PeekPacket) always returns: before the   *)
(* return there is always a step that cannot be postponed for ever (the    *)
(* call is never stuck, however silent the peer), and every step lowers    *)
(* Variant, so there is no endless looping.  When PeekStream returns       *)
(* because the read failed at the deadline, it returns the aggregate of    *)
(* the errors of the earlier rounds if there was one, and the read error   *)
(* wrapped with "read payload" if the deadline passed before the first     *)
(* read delivered anything; the clock then stands at the deadline.         *)
(***************************************************************************)
C11_Terminates ==
    /\ [](pc /= "returned" => ENABLED Forced)
    /\ [][Variant' < Variant /\ Variant' >= 0]_vars
    /\ []((mode = "stream" /\ pc = "returned" /\ readErr = ReadError("timeout")) =>
            /\ now = deadline
            /\ ret = IF i >= 1 THEN Errors(errors) ELSE Cause(readErr, "read payload"))

\* Exhausted at the deadline after inconclusive rounds.
C11_Witness ==
    /\ mode = "stream"
    /\ pc = "returned"
    /\ readErr = ReadError("timeout")
    /\ i >= 1
    /\ N >= 1
    /\ now = deadline
    /\ Len(errors) = i * N
    /\ ret = Errors(errors)

(***************************************************************************)
(* C12.  A sniffer that panics is contained: the call does not crash, the  *)
(* other sniffers of the race are not stopped, and the fault is collected  *)
(* as the error of that sniffer.                                           *)
(***************************************************************************)
C12_FaultContained ==
    /\ pc /= "crashed"
    /\ \A d \in 1..N : snPc[d] /= "killed"
    /\ \A d \in 1..N : snPc[d] = "panicked" =>
          \E e \in Range(errors) \cup Range(errorsChan) : e.sn = d /\ e.round = i

(***************************************************************************)
(* C13.  Skip returns true exactly for the ports 25, 465, 587, 143, 993,   *)
(* 110 and 995, every call with the same metadata returns the same, and    *)
(* the calls leave the metadata as it was.                                 *)
(***************************************************************************)
C13_SkipPure ==
    mode = "skip" =>
        /\ \A k \in 1..Len(skipLog) :
              skipLog[k] = (port \in {25, 465, 587, 143, 993, 110, 995})
        /\ protocol = Unset
        /\ pc = "start"

\* Two calls for the submission port.
C13_Witness ==
    /\ mode = "skip"
    /\ port = 587
    /\ skipLog = <<TRUE, TRUE>>

(***************************************************************************)
(* C14.  Once the call has returned, the value it returned stays and no    *)
(* sniffer it launched changes metadata.Protocol any more.                 *)
(***************************************************************************)
C14_LateResultsDiscarded ==
    [][pc = "returned" => (ret' = ret /\ protocol' = protocol)]_vars

(***************************************************************************)
(* C15.  The buffer changes only in the read of PeekStream's loop, and no  *)
(* read executes while a goroutine of an earlier round is still running:   *)
(* the loop reaches the next read only after the range loop has ended by   *)
(* the closed channel, that is after every sniffer's wg.Done().            *)
(***************************************************************************)
C15_NoReadDuringRace ==
    [][(reads' /= reads \/ buffer' /= buffer) =>
          /\ pc = "read"
          /\ NoGoroutine
          /\ \A d \in 1..N : snPc'[d] \in {"none", "done"}]_vars

\* A read of a later round has just delivered, after a race of sniffers.
C15_Witness ==
    /\ mode = "stream"
    /\ pc = "resetDeadline"
    /\ readErr = Nil
    /\ i >= 1
    /\ N >= 2
    /\ launches = i * N
    /\ Len(buffer) = i + 1
    /\ \A d \in 1..N : snPc[d] = "done"

(***************************************************************************)
(* C16.  A sniffer goroutine that has still to send finds room in the      *)
(* channel, whether or not the caller is still receiving: every running    *)
(* goroutine of a race can take its next step, or, for the closing         *)
(* goroutine, waits for a sniffer goroutine that can.  Each sniffer sends  *)
(* once, the WaitGroup counts the sniffer goroutines that have not         *)
(* finished, and the channel is closed by the closing goroutine only,      *)
(* after the last send.                                                    *)
(***************************************************************************)
C16_SendNeverBlocks ==
    LET unsent == {d \in 1..N : snPc[d] \in {"spawned", "writing", "matched"}}
        sent == {d \in 1..N : snPc[d] \in {"sent", "done"}}
    IN  /\ unsent /= {} => Len(errorsChan) < Cap
        /\ Len(errorsChan) <= Cardinality(sent)
        /\ \A d \in 1..N : snPc[d] \notin {"none", "done"} => ENABLED SnifferStep(d)
        /\ wg = Cardinality({d \in 1..N : snPc[d] \notin {"none", "done"}})
        /\ closerPc = "wait" => (ENABLED Closer \/ \E d \in 1..N : ENABLED SnifferStep(d))
        /\ closed <=> closerPc = "done"
        /\ closed => (unsent = {} /\ wg = 0)

\* The caller returned on the first match; the other sniffer sent its
\* result to nobody, every goroutine finished and the channel was closed.
C16_Witness ==
    /\ pc = "returned"
    /\ ret = Nil
    /\ N >= 2
    /\ errorsChan /= <<>>
    /\ \A d \in 1..N : snPc[d] = "done"
    /\ closed

\* The caller has left the race it started last.
RaceLeft ==
    \/ ReturnedFromRace
    \/ mode = "stream" /\ i >= 1
          /\ pc \in {"setDeadline", "read", "resetDeadline", "checkErr", "returned"}

C18_ReasonsOfEveryRound ==
    /\ [][/\ IsPrefix(errors, errors')
          /\ errors' /= errors =>
                /\ errors' = Append(errors, errors'[Len(errors')])
                /\ errors'[Len(errors')].round = i]_vars
    /\ []((mode = "stream" /\ pc = "returned" /\ readErr /= Nil /\ i >= 1) =>
            /\ Len(errors) = i * N
            /\ \A k \in 1..Len(errors) : errors[k].round = (k - 1) \div N
            /\ \A r \in 0..(i - 1) : Len(RoundErrors(r)) = N
            /\ ret = Errors(errors))

\* Two rounds of two sniffers: the aggregate starts with the errors of the
\* first round, in the order they arrived, and goes on with the second's.
C18_Witness ==
    /\ mode = "stream"
    /\ pc = "returned"
    /\ i = 2
    /\ N = 2
    /\ errors[1] = SnifferError(2, 0)
    /\ errors[2] = SnifferError(1, 0)
    /\ errors[3].round = 1
    /\ ret.kind = "Errors"
    /\ ret.args = errors

(***************************************************************************)
(* C19.  The call returns nil only if a sniffer of the call matched.       *)
(***************************************************************************)
C19_NilOnlyOnMatch ==
    (pc = "returned" /\ ret = Nil) =>
        /\ N >= 1
        /\ protoWrites >= 1

(***************************************************************************)
(* C20.  The buffer only grows, at its end and only in the read of a       *)
(* round, by what that one read delivered, so the bytes handed to the      *)
(* sniffers of a round are a prefix of those handed to the sniffers of the *)
(* next; at every moment, and so when PeekStream returns with or without   *)
(* a match, the buffer holds all the bytes the connection has delivered,   *)
(* in the order of the reads.                                              *)
(***************************************************************************)
C20_BufferAppendOnly ==
    /\ [][/\ IsPrefix(buffer, buffer')
          /\ buffer' /= buffer =>
                /\ pc = "read"
                /\ reads' = reads + 1
                /\ \E c \in Chunks : buffer' = buffer \o c]_vars
    /\ [](buffer = delivered)
    /\ [](mode = "stream" /\ pc = "collect" => View = delivered /\ Len(View) = i + 1)

\* Returned without a match after two reads that delivered and a third
\* that failed: both bytes are in the buffer, in order.
C20_Witness ==
    /\ mode = "stream"
    /\ pc = "returned"
    /\ reads = 3
    /\ N >= 1
    /\ ret /= Nil
    /\ delivered = <<1, 0>>
    /\ buffer = <<1, 0>>
====
